---- MODULE Spec2Model ----
(***************************************************************************)
(* Model of the stable-bloom-filter crate: the bit-packed bucket array     *)
(* (src/src/buckets.rs) and the Stable Bloom Filter built on top of it     *)
(* (src/src/stable.rs, src/src/lib.rs).                                    *)
(*                                                                         *)
(* Machine integers.  TLC's integers are 32-bit signed, so a usize or u32  *)
(* quantity is kept as a pair <<hi, lo>> of 16-bit limbs denoting          *)
(* hi * 2^16 + lo.  A u32 has hi < 2^16; a usize (64-bit target) may have  *)
(* a larger hi.  u8 quantities are plain naturals below 256.               *)
(***************************************************************************)
EXTENDS Integers, Sequences, FiniteSets, TLC

VARIABLES
    data,            \* Buckets.data : Vec<u8>, as [len, bytes] (bytes = the non-zero bytes)
    bucket_size,     \* Buckets.bucket_size : u8
    max,             \* Buckets.max : u8
    count,           \* Buckets.count : usize
    sbf,             \* the StableBloomFilter fields m, p, k, max, index_buffer (NoFilter for a bare Buckets)
    status,          \* "ok", or "panic" once a call has panicked
    overflow_checks, \* build profile: TRUE when arithmetic overflow panics (debug), FALSE when it wraps (release)
    last             \* the last call made: its name, arguments and return value

vars == <<data, bucket_size, max, count, sbf, status, overflow_checks, last>>

-----------------------------------------------------------------------------
(* Bounds of the model *)

\* small arrays have at most MaxCount cells
MaxCount == 3
\* small arrays have at most MaxBits bits of cells
MaxBits == 10

-----------------------------------------------------------------------------
(* Arithmetic on machine integers *)

Limb == 256 * 256

Min(a, b) == IF a <= b THEN a ELSE b

Max(a, b) == IF a >= b THEN a ELSE b

RECURSIVE Pow2(_)
Pow2(n) == IF n = 0 THEN 1 ELSE 2 * Pow2(n - 1)

\* the wide number of a small natural
W(n) == <<n \div Limb, n % Limb>>

Norm(hi, lo) == <<hi + (lo \div Limb), lo % Limb>>

WAdd(a, b) == Norm(a[1] + b[1], a[2] + b[2])

\* a * c for a small factor c
WMul(a, c) == Norm(a[1] * c, a[2] * c)

WLt(a, b) == a[1] < b[1] \/ (a[1] = b[1] /\ a[2] < b[2])

\* a - b, for a >= b
WSub(a, b) ==
    IF a[2] >= b[2] THEN <<a[1] - b[1], a[2] - b[2]>>
    ELSE <<a[1] - b[1] - 1, a[2] + Limb - b[2]>>

\* a / 8 and a % 8
WDiv8(a) == <<a[1] \div 8, (a[1] % 8) * (Limb \div 8) + (a[2] \div 8)>>

WMod8(a) == a[2] % 8

\* a % m
RECURSIVE WMod(_, _)
WMod(a, m) ==
    IF m[1] = 0 /\ m[2] < 32768
    THEN <<0, ((((a[1] % m[2]) * (Limb % m[2])) % m[2]) + a[2]) % m[2]>>
    ELSE IF WLt(a, m) THEN a ELSE WMod(WSub(a, m), m)

\* `x as u32`: the low 32 bits
AsU32(a) == <<a[1] % Limb, a[2]>>

FitsU32(a) == a[1] < Limb

\* bitwise operators of u8/u32 operands (the operands here stay below 2^16)
RECURSIVE BitAnd(_, _)
BitAnd(a, b) ==
    IF a = 0 \/ b = 0 THEN 0
    ELSE (a % 2) * (b % 2) + 2 * BitAnd(a \div 2, b \div 2)

RECURSIVE BitOr(_, _)
BitOr(a, b) ==
    IF a = 0 THEN b
    ELSE IF b = 0 THEN a
    ELSE Max(a % 2, b % 2) + 2 * BitOr(a \div 2, b \div 2)

\* a & !b
RECURSIVE BitAndNot(_, _)
BitAndNot(a, b) ==
    IF a = 0 THEN 0
    ELSE (a % 2) * (1 - (b % 2)) + 2 * BitAndNot(a \div 2, b \div 2)

-----------------------------------------------------------------------------
(* Vec<u8> *)

\* vec![0; len]
ZeroVec(len) == [len |-> len, bytes |-> <<>>]

InBounds(d, idx) == WLt(idx, d.len)

\* d[idx], for idx in bounds
ReadByte(d, idx) == IF idx \in DOMAIN d.bytes THEN d.bytes[idx] ELSE 0

\* d[idx] = b, for idx in bounds
WriteByte(d, idx, b) ==
    [d EXCEPT !.bytes =
        IF b = 0
        THEN [j \in (DOMAIN d.bytes) \ {idx} |-> d.bytes[j]]
        ELSE [j \in (DOMAIN d.bytes) \cup {idx} |-> IF j = idx THEN b ELSE d.bytes[j]]]

-----------------------------------------------------------------------------
(* Buckets (src/src/buckets.rs) *)

\* the outcome of an expression that panicked
Panic == -1

\* get_bits with the mask 1 << length, its "- 1" forgotten
RECURSIVE get_bits_mask_off_by_one(_, _, _)
get_bits_mask_off_by_one(d, offset, length) ==
    LET byte_index == WDiv8(offset)
        byte_offset == WMod8(offset)
    IN  IF byte_offset + length > 8
        THEN LET rem == 8 - byte_offset
                 lo == get_bits_mask_off_by_one(d, offset, rem)
                 hi == get_bits_mask_off_by_one(d, WAdd(offset, W(rem)), length - rem)
             IN  IF lo = Panic \/ hi = Panic THEN Panic
                 ELSE BitOr(lo, hi * Pow2(rem))
        ELSE LET bit_mask == Pow2(length)
             IN  IF ~InBounds(d, byte_index) THEN Panic
                 ELSE BitAnd(ReadByte(d, byte_index), bit_mask * Pow2(byte_offset))
                          \div Pow2(byte_offset)

\* Buckets::get_bits: the bits at the specified offset and length, or Panic
RECURSIVE get_bits(_, _, _)
get_bits(d, offset, length) ==
    LET byte_index == WDiv8(offset)
        byte_offset == WMod8(offset)
    IN  IF byte_offset + length > 8
        THEN LET rem == 8 - byte_offset
                 lo == get_bits(d, offset, rem)
                 hi == get_bits(d, WAdd(offset, W(rem)), length - rem)
             IN  IF lo = Panic \/ hi = Panic THEN Panic
                 ELSE BitOr(lo, hi * Pow2(rem))
        ELSE LET bit_mask == Pow2(length) - 1
             IN  IF ~InBounds(d, byte_index) THEN Panic
                 ELSE BitAnd(ReadByte(d, byte_index), bit_mask * Pow2(byte_offset))
                          \div Pow2(byte_offset)

\* Buckets::set_bits: the buffer after the write, ok = FALSE when the call panicked
RECURSIVE set_bits(_, _, _, _)
set_bits(d, offset, length, bits) ==
    LET byte_index == WDiv8(offset)
        byte_offset == WMod8(offset)
    IN  IF byte_offset + length > 8
        THEN LET rem == 8 - byte_offset
                 first == set_bits(d, offset, rem, bits)
                 next == WAdd(offset, W(rem))
             IN  IF ~first.ok THEN first
                 ELSE IF ~FitsU32(next) /\ overflow_checks
                 THEN [ok |-> FALSE, data |-> first.data]
                 ELSE set_bits(first.data, AsU32(next), length - rem, bits \div Pow2(rem))
        ELSE LET bit_mask == Pow2(length) - 1
             IN  IF ~InBounds(d, byte_index) THEN [ok |-> FALSE, data |-> d]
                 ELSE LET cleared == BitAndNot(ReadByte(d, byte_index),
                                               bit_mask * Pow2(byte_offset)) % 256
                          d1 == WriteByte(d, byte_index, cleared)
                          merged == BitOr(ReadByte(d1, byte_index),
                                          BitAnd(bits, bit_mask) * Pow2(byte_offset)) % 256
                      IN  [ok |-> TRUE, data |-> WriteByte(d1, byte_index, merged)]

\* (bucket as u32) * u32::from(self.bucket_size), then set_bits
set_at(d, bucket, bits) ==
    LET offset == WMul(AsU32(bucket), bucket_size)
    IN  IF ~FitsU32(offset) /\ overflow_checks THEN [ok |-> FALSE, data |-> d]
        ELSE set_bits(d, AsU32(offset), bucket_size, bits)

\* Buckets::get
get(d, bucket) ==
    LET bits == get_bits(d, WMul(bucket, bucket_size), bucket_size)
    IN  IF bits = Panic THEN Panic ELSE bits % 256

\* Buckets::set
set(d, bucket, value) == set_at(d, bucket, Min(value, max))

\* Buckets::increment
increment(d, bucket, delta) ==
    LET old == get(d, bucket)
    IN  IF old = Panic THEN [ok |-> FALSE, data |-> d]
        ELSE set_at(d, bucket, Min(Min(old + delta, 255), max))

\* Buckets::decrease
decrease(d, bucket, delta) ==
    LET old == get(d, bucket)
    IN  IF old = Panic THEN [ok |-> FALSE, data |-> d]
        ELSE set_at(d, bucket, Max(old - delta, 0))

\* the length of the buffer of Buckets::new and Buckets::reset
buffer_len(cnt, bs) == WDiv8(WAdd(WMul(cnt, bs), W(7)))

\* reset with the buffer length rounded down instead of up
buckets_reset_rounded_down(cnt, bs) == ZeroVec(WDiv8(WMul(cnt, bs)))

\* Buckets::reset
buckets_reset(cnt, bs) == ZeroVec(buffer_len(cnt, bs))

\* the guard of Buckets::new with >= for >
new_panics_at_8(bs) == bs >= 8

\* the guard of Buckets::new
new_panics(bs) == bs > 8

\* the max field of Buckets::new
new_max(bs) == (Pow2(bs) - 1) % 256

-----------------------------------------------------------------------------
(* The calls of the bucket-array specification *)

\* the u8 values passed as value or delta
Values == {0, 1, 100, 255}

\* the requested bucket sizes (9 stands for the rejected sizes)
BucketSizes == 0..9

TwoTo32 == <<Limb, 0>>

\* the cell count of a large array: more than 2^32 cells
LargeCount == WAdd(TwoTo32, W(1))

\* the requested cell counts: 0..MaxCount cells within MaxBits bits, and LargeCount
Counts(bs) ==
    {W(c) : c \in {c \in 0..MaxCount : c * bs <= MaxBits \/ bs > 8}}
        \cup {c \in {LargeCount} : bs \in 1..8}

\* the largest power of two that divides n, for n in 1..8
Pow2Part(n) == IF n % 8 = 0 THEN 8 ELSE IF n % 4 = 0 THEN 4 ELSE IF n % 2 = 0 THEN 2 ELSE 1

\* the smallest cell index above 0 whose bit offset is 0 modulo 2^32
FirstAlias(bs) == <<Limb \div Pow2Part(bs), 0>>

\* the cell indices the calls are made with: every cell of a small array; of
\* a large array cell 0, cell 2^32 and the first cell whose 32-bit offset is 0
CellIndices ==
    IF WLt(count, TwoTo32)
    THEN {W(j) : j \in {j \in 0..(MaxCount - 1) : j < count[2]}}
    ELSE {W(0), TwoTo32, FirstAlias(bucket_size)}

\* the build profiles: overflow checks on or off.  A 32-bit offset can only
\* overflow in an array of 2^32 cells or more, so that smaller arrays are
\* modelled under one profile
Profiles(cnt) == IF WLt(cnt, TwoTo32) THEN {FALSE} ELSE BOOLEAN

NoFilter == [m |-> W(0), p |-> 0, k |-> 0, max |-> 0, index_buffer |-> <<>>]

\* Buckets::new(cnt, bs)
InitBuckets ==
    \E bs \in BucketSizes :
      \E cnt \in Counts(bs) : \E oc \in Profiles(cnt) :
        /\ overflow_checks = oc
        /\ sbf = NoFilter
        /\ last = [op |-> "new", bucket |-> cnt, value |-> bs, ret |-> 0]
        /\ IF new_panics(bs)
           THEN /\ status = "panic"
                /\ count = W(0)
                /\ bucket_size = 0
                /\ max = 0
                /\ data = ZeroVec(W(0))
           ELSE /\ status = "ok"
                /\ count = cnt
                /\ bucket_size = bs
                /\ max = new_max(bs)
                /\ data = ZeroVec(buffer_len(cnt, bs))

\* the effect of a mutating call of Buckets
Mutate(res, call) ==
    /\ data' = res.data
    /\ status' = IF res.ok THEN "ok" ELSE "panic"
    /\ last' = call
    /\ UNCHANGED <<bucket_size, max, count, sbf, overflow_checks>>

BucketsGet(bucket) ==
    /\ status = "ok"
    /\ sbf = NoFilter
    /\ LET v == get(data, bucket)
       IN  /\ status' = IF v = Panic THEN "panic" ELSE "ok"
           /\ last' = [op |-> "get", bucket |-> bucket, value |-> 0, ret |-> v]
    /\ UNCHANGED <<data, bucket_size, max, count, sbf, overflow_checks>>

BucketsSet(bucket, value) ==
    /\ status = "ok"
    /\ sbf = NoFilter
    /\ Mutate(set(data, bucket, value),
              [op |-> "set", bucket |-> bucket, value |-> value, ret |-> 0])

BucketsIncrement(bucket, delta) ==
    /\ status = "ok"
    /\ sbf = NoFilter
    /\ Mutate(increment(data, bucket, delta),
              [op |-> "increment", bucket |-> bucket, value |-> delta, ret |-> 0])

BucketsDecrease(bucket, delta) ==
    /\ status = "ok"
    /\ sbf = NoFilter
    /\ Mutate(decrease(data, bucket, delta),
              [op |-> "decrease", bucket |-> bucket, value |-> delta, ret |-> 0])

BucketsReset ==
    /\ status = "ok"
    /\ sbf = NoFilter
    /\ Mutate([ok |-> TRUE, data |-> buckets_reset(count, bucket_size)],
              [op |-> "reset", bucket |-> W(0), value |-> 0, ret |-> 0])

NextBuckets ==
    \/ \E bucket \in CellIndices : BucketsGet(bucket)
    \/ \E bucket \in CellIndices, value \in Values : BucketsSet(bucket, value)
    \/ \E bucket \in CellIndices, delta \in Values : BucketsIncrement(bucket, delta)
    \/ \E bucket \in CellIndices, delta \in Values : BucketsDecrease(bucket, delta)
    \/ BucketsReset

SpecBuckets == InitBuckets /\ [][NextBuckets]_vars

-----------------------------------------------------------------------------
(* StableBloomFilter (src/src/stable.rs) *)

\* filters have at most MaxM cells, or LargeCount cells
MaxM == 2
\* optimal_k(fp_rate) yields 0..MaxOptK
MaxOptK == 5
\* (1.0 / denom) as usize in optimal_stable_p yields 0..MaxP
MaxP == 3

\* the elements tested and added
Data == {"x1", "x2", "x3"}

\* the 64-bit digest of FnvHasher for each element, as its two 32-bit halves
fnv ==
    [x \in Data |->
        CASE x = "x1" -> [upper |-> W(1), lower |-> W(0)]
          [] x = "x2" -> [upper |-> W(1), lower |-> <<Limb - 1, Limb - 1>>]
          [] x = "x3" -> [upper |-> W(0), lower |-> W(1)]]

\* StableBloomFilter::hash_kernel: (lower, upper)
hash_kernel(x) == <<fnv[x].lower, fnv[x].upper>>

\* (lower as usize + upper as usize * i) % self.m
slot(x, i) ==
    LET h == hash_kernel(x)
    IN  WMod(WAdd(h[1], WMul(h[2], i)), sbf.m)

\* optimal_k(fp_rate) / 2 clamped as StableBloomFilter::new clamps it
new_k(m, optk) ==
    LET k == optk \div 2
    IN  IF WLt(m, W(k)) THEN m[2] ELSE IF k = 0 THEN 1 ELSE k

\* the values of (1.0 / denom) as usize in optimal_stable_p, by the cases of
\* its floating-point arithmetic:
\*   d = 0: max is 0.0, the exponent 1.0 / max infinite, and denom infinite or
\*     NaN, which the cast takes to 0;
\*   optimal_k(fp_rate) = 0, i.e. fp_rate >= 1: sub_denom is 0.0, negative or
\*     NaN, and 1.0 / denom negative, infinitely small or NaN, cast to 0;
\*   k = m otherwise: the factor 1/k - 1/m and with it denom is 0.0, and the
\*     cast of 1.0 / 0.0 saturates at usize::MAX, which MaxP + 1 stands for (a
\*     call that loops p times is modelled for p <= MaxP only);
\*   otherwise a number that depends on fp_rate, here any of 0..MaxP
RawP(m, k, d, optk) ==
    IF d = 0 \/ optk = 0 THEN {0}
    ELSE IF W(k) = m THEN {MaxP + 1}
    ELSE 0..MaxP

\* optimal_stable_p, from raw = (1.0 / denom) as usize
optimal_stable_p(raw) == IF raw = 0 THEN 1 ELSE raw

\* StableBloomFilter::test from slot i on: ok = FALSE when the call panicked
RECURSIVE test_from(_, _, _)
test_from(d, x, i) ==
    IF i >= sbf.k THEN [ok |-> TRUE, ret |-> TRUE]
    ELSE LET v == get(d, slot(x, i))
         IN  IF v = Panic THEN [ok |-> FALSE, ret |-> FALSE]
             ELSE IF v = 0 THEN [ok |-> TRUE, ret |-> FALSE]
             ELSE test_from(d, x, i + 1)

\* StableBloomFilter::test
test(d, x) == test_from(d, x, 0)

\* StableBloomFilter::decrement from iteration i on, with start offset r
RECURSIVE decrement_from(_, _, _)
decrement_from(d, r, i) ==
    IF i >= sbf.p THEN [ok |-> TRUE, data |-> d]
    ELSE LET idx == WMod(WAdd(r, W(i)), sbf.m)
             res == decrease(d, idx, 1)
         IN  IF ~res.ok THEN res ELSE decrement_from(res.data, r, i + 1)

\* StableBloomFilter::decrement
decrement(d, r) == decrement_from(d, r, 0)

\* the loop of StableBloomFilter::add that sets the k cells to max
RECURSIVE add_from(_, _, _)
add_from(d, x, i) ==
    IF i >= sbf.k THEN [ok |-> TRUE, data |-> d]
    ELSE LET res == set(d, slot(x, i), sbf.max)
         IN  IF ~res.ok THEN res ELSE add_from(res.data, x, i + 1)

\* StableBloomFilter::add
add(d, x, r) ==
    LET dec == decrement(d, r)
    IN  IF ~dec.ok THEN dec ELSE add_from(dec.data, x, 0)

\* the first loop of StableBloomFilter::test_and_add: caches the slots in the
\* index buffer and computes the membership
RECURSIVE fill_index_buffer(_, _, _, _, _)
fill_index_buffer(d, x, i, buf, member) ==
    IF i >= sbf.k THEN [ok |-> TRUE, index_buffer |-> buf, member |-> member]
    ELSE LET buf2 == [buf EXCEPT ![i + 1] = slot(x, i)]
             v == get(d, buf2[i + 1])
         IN  IF v = Panic THEN [ok |-> FALSE, index_buffer |-> buf2, member |-> member]
             ELSE fill_index_buffer(d, x, i + 1, buf2, IF v = 0 THEN FALSE ELSE member)

\* the last loop of StableBloomFilter::test_and_add: sets the cached cells to max
RECURSIVE set_index_buffer(_, _, _)
set_index_buffer(d, buf, j) ==
    IF j > Len(buf) THEN [ok |-> TRUE, data |-> d]
    ELSE LET res == set(d, buf[j], sbf.max)
         IN  IF ~res.ok THEN res ELSE set_index_buffer(res.data, buf, j + 1)

\* test_and_add that evicts before it tests
test_and_add_evict_first(d, x, r) ==
    LET dec == decrement(d, r)
        filled == fill_index_buffer(dec.data, x, 0, sbf.index_buffer, TRUE)
        res == set_index_buffer(dec.data, filled.index_buffer, 1)
    IN  IF ~dec.ok
        THEN [ok |-> FALSE, data |-> dec.data, index_buffer |-> sbf.index_buffer,
              member |-> TRUE]
        ELSE IF ~filled.ok
        THEN [ok |-> FALSE, data |-> dec.data, index_buffer |-> filled.index_buffer,
              member |-> filled.member]
        ELSE [ok |-> res.ok, data |-> res.data, index_buffer |-> filled.index_buffer,
              member |-> filled.member]

\* StableBloomFilter::test_and_add
test_and_add(d, x, r) ==
    LET filled == fill_index_buffer(d, x, 0, sbf.index_buffer, TRUE)
        dec == decrement(d, r)
        res == set_index_buffer(dec.data, filled.index_buffer, 1)
    IN  IF ~filled.ok
        THEN [ok |-> FALSE, data |-> d, index_buffer |-> filled.index_buffer,
              member |-> filled.member]
        ELSE IF ~dec.ok
        THEN [ok |-> FALSE, data |-> dec.data, index_buffer |-> filled.index_buffer,
              member |-> filled.member]
        ELSE [ok |-> res.ok, data |-> res.data, index_buffer |-> filled.index_buffer,
              member |-> filled.member]

-----------------------------------------------------------------------------
(* The calls of the filter specification *)

\* the requested cell counts m
FilterCounts == {W(c) : c \in 1..MaxM} \cup {LargeCount}

\* the requested bits per cell d (9 stands for the rejected sizes)
FilterSizes == {0, 1, 2, 9}

\* the start offsets drawn by decrement: every cell of a small filter; of a
\* large filter cell 0, cell 2^32 - 1 and the first cell whose 32-bit offset is 0
Offsets ==
    IF WLt(sbf.m, TwoTo32)
    THEN {W(j) : j \in {j \in 0..(MaxM - 1) : j < sbf.m[2]}}
    ELSE {W(0), WSub(TwoTo32, W(1)), FirstAlias(bucket_size)}

\* the cells observed: those the calls above can address
FilterCells ==
    IF WLt(sbf.m, TwoTo32)
    THEN {W(j) : j \in {j \in 0..(MaxM - 1) : j < sbf.m[2]}}
    ELSE Offsets \cup {TwoTo32} \cup {slot(x, i) : x \in Data, i \in 0..MaxOptK}

Constructed(op) == [op |-> op, x |-> "none", r |-> W(0), ret |-> FALSE]

\* the state StableBloomFilter::new(m, d, fp_rate) leaves
new(op, m, d, optk, raw, oc) ==
    LET k == new_k(m, optk)
    IN  /\ overflow_checks = oc
        /\ last = Constructed(op)
        /\ IF new_panics(d)
           THEN /\ status = "panic"
                /\ count = W(0)
                /\ bucket_size = 0
                /\ max = 0
                /\ data = ZeroVec(W(0))
                /\ sbf = [m |-> m, p |-> 0, k |-> k, max |-> 0, index_buffer |-> <<>>]
           ELSE /\ status = "ok"
                /\ count = m
                /\ bucket_size = d
                /\ max = new_max(d)
                /\ data = ZeroVec(buffer_len(m, d))
                /\ sbf = [m |-> m, p |-> optimal_stable_p(raw), k |-> k,
                          max |-> new_max(d), index_buffer |-> [j \in 1..k |-> W(0)]]

\* the state StableBloomFilter::new_unstable(m, fp_rate) leaves
new_unstable(m, optk, oc) ==
    /\ overflow_checks = oc
    /\ last = Constructed("new_unstable")
    /\ status = "ok"
    /\ count = m
    /\ bucket_size = 1
    /\ max = new_max(1)
    /\ data = ZeroVec(buffer_len(m, 1))
    /\ sbf = [m |-> m, p |-> 0, k |-> optk, max |-> new_max(1),
              index_buffer |-> [j \in 1..optk |-> W(0)]]

InitFilter ==
    \E m \in FilterCounts, optk \in 0..MaxOptK :
      \E oc \in Profiles(m) :
        \/ \E d \in FilterSizes :
             \E raw \in RawP(m, new_k(m, optk), d, optk) :
               new("new", m, d, optk, raw, oc)
        \/ \E raw \in RawP(m, new_k(m, optk), 1, optk) :
               new("new_default", m, 1, optk, raw, oc)
        \/ new_unstable(m, optk, oc)

IsFilter == sbf # NoFilter

\* the effect of a mutating call of the filter
FilterMutate(res, buf, call) ==
    /\ data' = res.data
    /\ sbf' = [sbf EXCEPT !.index_buffer = buf]
    /\ status' = IF res.ok THEN "ok" ELSE "panic"
    /\ last' = call
    /\ UNCHANGED <<bucket_size, max, count, overflow_checks>>

FilterTest(x) ==
    /\ status = "ok"
    /\ IsFilter
    /\ LET res == test(data, x)
       IN  /\ status' = IF res.ok THEN "ok" ELSE "panic"
           /\ last' = [op |-> "test", x |-> x, r |-> W(0), ret |-> res.ret]
    /\ UNCHANGED <<data, bucket_size, max, count, sbf, overflow_checks>>

FilterAdd(x, r) ==
    /\ status = "ok"
    /\ IsFilter
    /\ sbf.p <= MaxP
    /\ FilterMutate(add(data, x, r), sbf.index_buffer,
                    [op |-> "add", x |-> x, r |-> r, ret |-> FALSE])

FilterTestAndAdd(x, r) ==
    /\ status = "ok"
    /\ IsFilter
    /\ sbf.p <= MaxP
    /\ LET res == test_and_add(data, x, r)
       IN  FilterMutate(res, res.index_buffer,
                        [op |-> "test_and_add", x |-> x, r |-> r, ret |-> res.member])

FilterDecrement(r) ==
    /\ status = "ok"
    /\ IsFilter
    /\ sbf.p <= MaxP
    /\ FilterMutate(decrement(data, r), sbf.index_buffer,
                    [op |-> "decrement", x |-> "none", r |-> r, ret |-> FALSE])

FilterReset ==
    /\ status = "ok"
    /\ IsFilter
    /\ FilterMutate([ok |-> TRUE, data |-> buckets_reset(count, bucket_size)],
                    sbf.index_buffer,
                    [op |-> "reset", x |-> "none", r |-> W(0), ret |-> FALSE])

NextFilter ==
    \/ \E x \in Data : FilterTest(x)
    \/ \E x \in Data, r \in Offsets : FilterAdd(x, r)
    \/ \E x \in Data, r \in Offsets : FilterTestAndAdd(x, r)
    \/ \E r \in Offsets : FilterDecrement(r)
    \/ FilterReset

SpecFilter == InitFilter /\ [][NextFilter]_vars

\* bucket arrays and filters together
Init == InitBuckets \/ InitFilter

Next == NextBuckets \/ NextFilter

Spec == Init /\ [][Next]_vars

-----------------------------------------------------------------------------
(* Properties of the bucket array *)

\* C1: after set(i, v) on an array of bucket_size 1..8, get(i) returns
\* min(v, max), for every cell index i in [0, count) and every value v.
C1_SetThenGet ==
    (status = "ok" /\ last.op = "set" /\ bucket_size \in 1..8)
        => get(data, last.bucket) = Min(last.value, max)

\* C4: in every state reached from a newly constructed Buckets by set,
\* increment, decrease and reset calls, every cell's stored value lies in
\* [0, max] with max = 2^bucket_size - 1 (a cell of 0 bits stores nothing).
C4_CellsInRange ==
    /\ max = Pow2(bucket_size) - 1
    /\ bucket_size \in 1..8 => \A i \in CellIndices : get(data, i) \in 0..max

\* an increment has saturated a cell of 8 bits at 255
C4_Witness ==
    /\ status = "ok"
    /\ last.op = "increment"
    /\ bucket_size = 8
    /\ last.value = 255
    /\ get(data, last.bucket) = 255

\* C5: after increment(i, delta) get(i) equals min(old + delta, max) and after
\* decrease(i, delta) get(i) equals max(old - delta, 0), where old is the value
\* the cell held before the call, for every bucket_size in 1..8.
C5_SaturatingUpdate ==
    [][(status' = "ok" /\ bucket_size \in 1..8)
        => /\ last'.op = "increment"
                => get(data', last'.bucket)
                     = Min(get(data, last'.bucket) + last'.value, max)
           /\ last'.op = "decrease"
                => get(data', last'.bucket)
                     = Max(get(data, last'.bucket) - last'.value, 0)]_vars

-----------------------------------------------------------------------------
(* Properties of the filter *)

\* the cells observed in a state
ObservedCells == IF IsFilter THEN FilterCells ELSE CellIndices

Constructors == {"new", "new_default", "new_unstable"}

\* C2: add(x) immediately followed by test(x) returns true, for every filter,
\* every reachable cell state, every x and every eviction offset.
C2_AddThenTest ==
    (status = "ok" /\ last.op = "add")
        => (test(data, last.x).ok /\ test(data, last.x).ret)

\* C3: test_and_add(x) returns what test(x) returns before any mutation (true
\* iff all k slots of x are non-zero) and leaves the cells as add(x) leaves
\* them for the same eviction offset.
C3_TestAndAdd ==
    [][(last'.op = "test_and_add" /\ status' = "ok")
        => /\ last'.ret = test(data, last'.x).ret
           /\ last'.ret <=> \A i \in 0..(sbf.k - 1) : get(data, slot(last'.x, i)) # 0
           /\ add(data, last'.x, last'.r).ok
           /\ data' = add(data, last'.x, last'.r).data]_vars

\* test_and_add has reported a member of a filter that evicts
C3_Witness ==
    /\ status = "ok"
    /\ last.op = "test_and_add"
    /\ last.ret = TRUE
    /\ sbf.p >= 1
    /\ sbf.k >= 2

C7_Decrement ==
    [][(last'.op = "decrement" /\ status' = "ok" /\ WLt(sbf.m, TwoTo32))
        => LET touched == {WMod(WAdd(last'.r, W(j)), sbf.m) : j \in 0..(sbf.p - 1)}
           IN  \A i \in ObservedCells :
                   get(data', i) = IF i \in touched
                                   THEN Max(get(data, i) - 1, 0)
                                   ELSE get(data, i)]_vars

\* C8: immediately after construction by any constructor or immediately after
\* reset(), test(x) returns false for every x.
C8_EmptyTest ==
    [][(last.op \in Constructors \cup {"reset"} /\ IsFilter
            /\ last'.op = "test" /\ status' = "ok")
        => last'.ret = FALSE]_vars

\* C10: on a filter or bucket array that was constructed, no call of get,
\* set, increment, decrease, test, add, test_and_add, decrement or reset
\* panics.
C10_Total == status = "panic" => last.op \in Constructors

\* C11: every filter produced by new, new_default or new_unstable with m >= 1
\* has 1 <= k <= m, and k, p, m and max do not change under test, add,
\* test_and_add, decrement or reset.
C11_Parameters ==
    [][(IsFilter /\ status = "ok")
        => /\ 1 <= sbf.k
           /\ ~WLt(sbf.m, W(sbf.k))
           /\ sbf'.k = sbf.k /\ sbf'.p = sbf.p /\ sbf'.m = sbf.m
           /\ sbf'.max = sbf.max /\ max' = max]_vars

\* C12: set(i, v), increment(i, delta) or decrease(i, delta) on cell i of an
\* array of bucket_size 1..8 leaves get(j) unchanged for every other cell j;
\* test(x) leaves every cell unchanged.
C12_Frame ==
    [][(status' = "ok" /\ bucket_size \in 1..8)
        => /\ (~IsFilter /\ last'.op \in {"set", "increment", "decrease"})
                => \A j \in CellIndices \ {last'.bucket} :
                       get(data', j) = get(data, j)
           /\ (IsFilter /\ last'.op = "test") => data' = data]_vars

\* C13: in the filter of new_unstable (p = 0) decrement() changes no cell, no
\* cell value decreases under add or test_and_add, and once add(x) or
\* test_and_add(x) has been called test(x) returns true until reset() is
\* called: it returns true right after the call, and no call but reset turns
\* a true test(x) into a false one.
C13_NoFalseNegative ==
    [][(IsFilter /\ sbf.p = 0 /\ status' = "ok")
        => /\ last'.op = "decrement" => data' = data
           /\ last'.op \in {"add", "test_and_add"}
                => /\ \A i \in ObservedCells : get(data', i) >= get(data, i)
                   /\ test(data', last'.x).ret
           /\ last'.op # "reset"
                => \A x \in Data : test(data, x).ret => test(data', x).ret]_vars

====
